---- MODULE Spec2Model ----
(***************************************************************************)
(* Model of the mail-stack test scripts of delfour-co/workspace--gk:       *)
(*   test-imap-full.py, test-imap-e2e.py, test-imap.py, test-imap-all.py   *)
(*   (raw IMAP sessions), send-smtp-raw.py (raw SMTP session),             *)
(*   send-test-email.py and test_spf_dkim.py (smtplib sessions and the     *)
(*   on-disk mailbox inspection).                                          *)
(* One script runs per behaviour; the server under test and the mailbox    *)
(* on disk are the environment.  Text is modelled as text: responses are   *)
(* strings, and the checks the scripts make on them are the substring and  *)
(* pattern searches of the source.                                         *)
(***************************************************************************)
EXTENDS Integers, Sequences, FiniteSets, TLC

VARIABLES
    script,     \* which script's __main__ runs in this behaviour
    pc,         \* position of the script
    step,       \* index of the command (or smtplib exchange) the script is at
    sock,       \* "none" | "created" | "open" | "closed" : the script's socket / SMTP object
    peer,       \* "up" | "silent" | "closed" : the server end of the connection
    sent,       \* the payloads the script itself wrote with sock.sendall, in order
                \* (what smtplib writes inside its calls is not part of it)
    recvd,      \* the number of the script's own sock.recv calls that have returned
    response,   \* send_command's local: the text its recv returned ("" while it
                \* has not returned); in the smtplib scripts the reply getreply read
    count,      \* test_imap_read: int(match.group(1)); -1 before it is set
    stdout,     \* the verdict lines printed so far (echo lines are left out)
    retval,     \* return values of the functions that return one
    exitCode,   \* process exit status; -1 while the process runs
    maildirs,   \* the mailbox directories on disk when they are inspected
    latest      \* the content of the file check_authentication_header read

vars == <<script, pc, step, sock, peer, sent, recvd, response, count, stdout,
          retval, exitCode, maildirs, latest>>

(***************************************************************************)
(* Bounds of the model.                                                    *)
(***************************************************************************)
MaxLines == 3       \* lines in one received chunk
MaxFiles == 2       \* files in one mailbox directory

(***************************************************************************)
(* Text primitives.                                                        *)
(***************************************************************************)
\* Python: sub in s
Contains(s, sub) ==
    \E i \in 1..(Len(s) - Len(sub) + 1) : SubSeq(s, i, i + Len(sub) - 1) = sub

\* Python: s.startswith(p)
StartsWith(s, p) == Len(s) >= Len(p) /\ SubSeq(s, 1, Len(p)) = p

\* Python: s.lower(), on the characters the model's texts use
LowerChar(c) ==
    CASE c = "A" -> "a" [] c = "B" -> "b" [] c = "C" -> "c" [] c = "D" -> "d"
      [] c = "E" -> "e" [] c = "F" -> "f" [] c = "G" -> "g" [] c = "H" -> "h"
      [] c = "I" -> "i" [] c = "J" -> "j" [] c = "K" -> "k" [] c = "L" -> "l"
      [] c = "M" -> "m" [] c = "N" -> "n" [] c = "O" -> "o" [] c = "P" -> "p"
      [] c = "Q" -> "q" [] c = "R" -> "r" [] c = "S" -> "s" [] c = "T" -> "t"
      [] c = "U" -> "u" [] c = "V" -> "v" [] c = "W" -> "w" [] c = "X" -> "x"
      [] c = "Y" -> "y" [] c = "Z" -> "z" [] OTHER -> c

RECURSIVE Lower(_)
Lower(s) ==
    IF Len(s) = 0 THEN ""
    ELSE IF Len(s) = 1 THEN LowerChar(s)
    ELSE LET h == Len(s) \div 2
         IN  Lower(SubSeq(s, 1, h)) \o Lower(SubSeq(s, h + 1, Len(s)))

IsDigit(c) == c \in {"0", "1", "2", "3", "4", "5", "6", "7", "8", "9"}

DigitVal(c) ==
    CASE c = "0" -> 0 [] c = "1" -> 1 [] c = "2" -> 2 [] c = "3" -> 3
      [] c = "4" -> 4 [] c = "5" -> 5 [] c = "6" -> 6 [] c = "7" -> 7
      [] c = "8" -> 8 [] c = "9" -> 9

DigitChar(d) ==
    CASE d = 0 -> "0" [] d = 1 -> "1" [] d = 2 -> "2" [] d = 3 -> "3"
      [] d = 4 -> "4" [] d = 5 -> "5" [] d = 6 -> "6" [] d = 7 -> "7"
      [] d = 8 -> "8" [] d = 9 -> "9"

\* Python: int(s) for a string of decimal digits
RECURSIVE ParseInt(_)
ParseInt(s) ==
    IF Len(s) = 0 THEN 0
    ELSE 10 * ParseInt(SubSeq(s, 1, Len(s) - 1)) + DigitVal(SubSeq(s, Len(s), Len(s)))

\* Python: str(n) / f"{n}" for n >= 0
RECURSIVE IntToStr(_)
IntToStr(n) ==
    IF n < 10 THEN DigitChar(n) ELSE IntToStr(n \div 10) \o DigitChar(n % 10)

\* each line followed by CRLF, as the server writes them
RECURSIVE JoinCRLF(_)
JoinCRLF(ls) == IF Len(ls) = 0 THEN "" ELSE Head(ls) \o "\r\n" \o JoinCRLF(Tail(ls))

\* the texts one recv can return while the connection is up: 1..MaxLines lines of L
ChunksOf(L) == { JoinCRLF(ls) : ls \in UNION { [1..n -> L] : n \in 1..MaxLines } }

(***************************************************************************)
(* The scripts.                                                            *)
(***************************************************************************)
FULL == "test-imap-full"
E2E == "test-imap-e2e"
IMAP == "test-imap"
ALL == "test-imap-all"
RAW == "send-smtp-raw"
SENDTEST == "send-test-email"
SPF == "test_spf_dkim"

ImapScripts == {FULL, E2E, IMAP, ALL}
SocketScripts == ImapScripts \cup {RAW}
SmtplibScripts == {SENDTEST, SPF}
Scripts == SocketScripts \cup SmtplibScripts

\* the literal command lines of test_complete_flow
FullCommand(st) ==
    CASE st = 1 -> "A001 LOGIN test@example.com password123"
      [] st = 2 -> "A002 SELECT INBOX"
      [] st = 3 -> "A003 FETCH 1:* BODY[]"
      [] st = 4 -> "A004 LIST \"\" \"*\""
      [] st = 5 -> "A005 LOGOUT"

\* test_imap_read with LOGOUT numbered as the command after SELECT
E2ECommandReusedTag(st, cnt) ==
    CASE st = 1 -> "A001 LOGIN test@example.com password123"
      [] st = 2 -> "A002 SELECT INBOX"
      [] st = 3 -> "A003 FETCH " \o IntToStr(cnt) \o " BODY[]"
      [] st = 4 -> "A003 LOGOUT"

\* the command lines of test_imap_read; FETCH is built from the EXISTS count
E2ECommand(st, cnt) ==
    CASE st = 1 -> "A001 LOGIN test@example.com password123"
      [] st = 2 -> "A002 SELECT INBOX"
      [] st = 3 -> "A003 FETCH " \o IntToStr(cnt) \o " BODY[]"
      [] st = 4 -> "A004 LOGOUT"

\* the literal command lines of test_imap
ImapCommand(st) ==
    CASE st = 1 -> "A001 CAPABILITY"
      [] st = 2 -> "A002 NOOP"
      [] st = 3 -> "A003 LOGIN test@example.com wrongpass"
      [] st = 4 -> "A004 LOGOUT"

\* the literal command lines of test_imap_all
AllCommand(st) ==
    CASE st = 1 -> "A001 LOGIN test@example.com password123"
      [] st = 2 -> "A002 SELECT INBOX"
      [] st = 3 -> "A003 FETCH 1:* BODY[]"
      [] st = 4 -> "A004 LOGOUT"

\* strftime("%Y-%m-%d %H:%M:%S") and strftime('%a, %d %b %Y %H:%M:%S +0000') of
\* the clock at the time of the run: one sample instant
Timestamp == "2024-01-01 00:00:00"
DateHeader == "Mon, 01 Jan 2024 00:00:00 +0000"

\* email_content of send-smtp-raw.py (the check-mark and party glyphs left out)
EmailContent ==
    "From: sender@example.com\n" \o
    "To: test@example.com\n" \o
    "Subject: E2E Test Email - " \o Timestamp \o "\n" \o
    "Date: " \o DateHeader \o "\n" \o
    "\n" \o
    "Hello!\n" \o
    "\n" \o
    "This is an end-to-end test email sent via raw SMTP.\n" \o
    "\n" \o
    "If you can read this in the web-ui via the AI assistant, it means:\n" \o
    " SMTP reception works\n" \o
    " Maildir storage works\n" \o
    " IMAP reading works\n" \o
    " MCP integration works\n" \o
    " AI runtime works\n" \o
    " Web-UI works\n" \o
    "\n" \o
    "Congratulations! The full stack is working! \n" \o
    "\n" \o
    "Best regards,\n" \o
    "The GK Mail Test Suite\n" \o
    ".\n"

\* send_email (send-smtp-raw.py) with the content written before DATA
RawCommandContentFirst(st) ==
    CASE st = 1 -> "EHLO test-client"
      [] st = 2 -> "MAIL FROM:<sender@example.com>"
      [] st = 3 -> "RCPT TO:<test@example.com>"
      [] st = 4 -> EmailContent
      [] st = 5 -> "DATA"
      [] st = 6 -> "QUIT"

\* the SMTP command lines of send_email (send-smtp-raw.py); step 5 is the content
RawCommand(st) ==
    CASE st = 1 -> "EHLO test-client"
      [] st = 2 -> "MAIL FROM:<sender@example.com>"
      [] st = 3 -> "RCPT TO:<test@example.com>"
      [] st = 4 -> "DATA"
      [] st = 5 -> EmailContent
      [] st = 6 -> "QUIT"

Command(sc, st, cnt) ==
    CASE sc = FULL -> FullCommand(st)
      [] sc = E2E -> E2ECommand(st, cnt)
      [] sc = IMAP -> ImapCommand(st)
      [] sc = ALL -> AllCommand(st)
      [] sc = RAW -> RawCommand(st)

\* what sendall writes: send_command appends CRLF, the content is written as it is
Payload(sc, st, cnt) ==
    IF sc = RAW /\ st = 5 THEN Command(sc, st, cnt)
    ELSE Command(sc, st, cnt) \o "\r\n"

\* the tag a command line starts with
TagOf(cmd) == SubSeq(cmd, 1, 4)

(***************************************************************************)
(* Facts the scripts extract from a response.                              *)
(***************************************************************************)
\* test-imap-full.py: "OK" in response
OkCheck(resp) == Contains(resp, "OK")

\* the index of the last digit of the run of digits that starts at j (j-1: none)
RECURSIVE DigitsEnd(_, _)
DigitsEnd(s, j) ==
    IF j <= Len(s) /\ IsDigit(SubSeq(s, j, j)) THEN DigitsEnd(s, j + 1) ELSE j - 1

\* the pattern \* (\d+) EXISTS matches at index i of s
ExistsMatchAt(s, i) ==
    /\ i + 1 <= Len(s)
    /\ SubSeq(s, i, i + 1) = "* "
    /\ LET e == DigitsEnd(s, i + 2)
       IN  /\ e >= i + 2
           /\ e + 7 <= Len(s)
           /\ SubSeq(s, e + 1, e + 7) = " EXISTS"

\* re.search(r'\* (\d+) EXISTS', s) and int(match.group(1)); -1 stands for None
ExistsCount(s) ==
    LET hits == { i \in 1..Len(s) : ExistsMatchAt(s, i) }
    IN  IF hits = {} THEN -1
        ELSE LET i == CHOOSE h \in hits : \A g \in hits : h <= g
             IN  ParseInt(SubSeq(s, i + 2, DigitsEnd(s, i + 2)))

\* Python: s.count(sub), occurrences that do not overlap, from the left
RECURSIVE CountFrom(_, _, _)
CountFrom(s, sub, from) ==
    LET hits == { i \in from..(Len(s) - Len(sub) + 1) : SubSeq(s, i, i + Len(sub) - 1) = sub }
    IN  IF hits = {} THEN 0
        ELSE LET i == CHOOSE h \in hits : \A g \in hits : h <= g
             IN  1 + CountFrom(s, sub, i + Len(sub))
CountOcc(s, sub) == CountFrom(s, sub, 1)

\* Python: str(n) for any integer
NumStr(n) == IF n < 0 THEN "-" \o IntToStr(0 - n) ELSE IntToStr(n)

(***************************************************************************)
(* What each script does with a response: where it goes next and what it   *)
(* prints.  The result is [pc, step, count, out].                          *)
(***************************************************************************)
FullStepName(st) ==
    CASE st = 1 -> "LOGIN" [] st = 2 -> "SELECT" [] st = 3 -> "FETCH" [] st = 4 -> "LIST"

\* test_complete_flow closing the socket, without LOGOUT, after a failed check
FullAfterCloseOnFail(st, resp, cnt) ==
    IF st \in 1..3
    THEN IF ~OkCheck(resp)
         THEN [pc |-> "close", step |-> st, count |-> cnt,
               out |-> <<FullStepName(st) \o " failed!">>]
         ELSE [pc |-> "send", step |-> st + 1, count |-> cnt,
               out |-> <<FullStepName(st) \o " successful!">>]
    ELSE IF st = 4
    THEN [pc |-> "send", step |-> 5, count |-> cnt, out |-> <<"LIST successful!">>]
    ELSE [pc |-> "close", step |-> st, count |-> cnt, out |-> <<>>]

\* test_complete_flow with the return after a failed check left out
FullAfterNoReturn(st, resp, cnt) ==
    IF st \in 1..4
    THEN [pc |-> "send", step |-> st + 1, count |-> cnt,
          out |-> IF st \in 1..3 /\ ~OkCheck(resp)
                  THEN <<FullStepName(st) \o " failed!">>
                  ELSE <<FullStepName(st) \o " successful!">>]
    ELSE [pc |-> "close", step |-> st, count |-> cnt, out |-> <<>>]

FullAfter(st, resp, cnt) ==
    IF st \in 1..3
    THEN IF ~OkCheck(resp)
         THEN [pc |-> "returned", step |-> st, count |-> cnt,
               out |-> <<FullStepName(st) \o " failed!">>]
         ELSE [pc |-> "send", step |-> st + 1, count |-> cnt,
               out |-> <<FullStepName(st) \o " successful!">>]
    ELSE IF st = 4
    THEN [pc |-> "send", step |-> 5, count |-> cnt, out |-> <<"LIST successful!">>]
    ELSE [pc |-> "close", step |-> st, count |-> cnt, out |-> <<>>]

E2EAfter(st, resp, cnt) ==
    IF st = 1
    THEN [pc |-> "send", step |-> 2, count |-> cnt, out |-> <<>>]
    ELSE IF st = 2
    THEN IF ExistsCount(resp) # -1
         THEN [pc |-> "send", step |-> 3, count |-> ExistsCount(resp),
               out |-> <<"Found " \o IntToStr(ExistsCount(resp)) \o " emails in INBOX">>]
         ELSE [pc |-> "send", step |-> 4, count |-> cnt, out |-> <<>>]
    ELSE IF st = 3
    THEN [pc |-> "send", step |-> 4, count |-> cnt,
          out |-> IF Contains(resp, "E2E Test Email")
                  THEN <<"SUCCESS! The E2E test email is readable via IMAP!">> \o
                       (IF Contains(resp, "full stack is working")
                        THEN <<"E2E test message confirmed!">> ELSE <<>>)
                  ELSE <<"Could not find E2E test email">>]
    ELSE [pc |-> "close", step |-> st, count |-> cnt, out |-> <<>>]

ImapAfter(st, resp, cnt) ==
    IF st < 4
    THEN [pc |-> "send", step |-> st + 1, count |-> cnt, out |-> <<>>]
    ELSE [pc |-> "close", step |-> st, count |-> cnt, out |-> <<>>]

AllAfter(st, resp, cnt) ==
    IF st < 3
    THEN [pc |-> "send", step |-> st + 1, count |-> cnt, out |-> <<>>]
    ELSE IF st = 3
    THEN [pc |-> "send", step |-> 4, count |-> cnt,
          out |-> IF Contains(resp, "E2E Test Email") /\ Contains(resp, "full stack is working")
                  THEN <<"SUCCESS! The E2E test email is readable via IMAP!",
                         "Total emails fetched: " \o NumStr(CountOcc(resp, "* ") - 1)>>
                  ELSE <<"E2E test email not found in response">>]
    ELSE [pc |-> "close", step |-> st, count |-> cnt, out |-> <<>>]

RawAfter(st, resp, cnt) ==
    IF st < 6
    THEN [pc |-> "send", step |-> st + 1, count |-> cnt, out |-> <<>>]
    ELSE [pc |-> "close", step |-> st, count |-> cnt, out |-> <<>>]

After(sc, st, resp, cnt) ==
    CASE sc = FULL -> FullAfter(st, resp, cnt)
      [] sc = E2E -> E2EAfter(st, resp, cnt)
      [] sc = IMAP -> ImapAfter(st, resp, cnt)
      [] sc = ALL -> AllAfter(st, resp, cnt)
      [] sc = RAW -> RawAfter(st, resp, cnt)

\* the line each script prints after sock.close()
FinalLine(sc) ==
    CASE sc = FULL -> "=== All tests passed! ==="
      [] sc = E2E -> "=== IMAP Test Complete ==="
      [] sc = IMAP -> "=== Tests completed ==="
      [] sc = ALL -> "=== Test Complete ==="
      [] sc = RAW -> "Email sent successfully!"

(***************************************************************************)
(* The environment: what the server under test may write back.             *)
(***************************************************************************)
\* the tagged completion lines an IMAP server may send for a tag
Completion(tag) == { tag \o " OK completed", tag \o " NO denied", tag \o " BAD error" }

\* untagged data and message text the server may send, per script
ExtraLines(sc) ==
    CASE sc = FULL -> { "* OK [READ-WRITE] ready", "Subject: Re: OK" }
      [] sc = E2E -> { "* 0 EXISTS", "* 10 EXISTS",
                       "Subject: E2E Test Email - 2024-01-01 00:00:00",
                       "Congratulations! The full stack is working!" }
      [] sc = ALL -> { "* 1 FETCH (BODY[] {120}",
                       "Subject: E2E Test Email - 2024-01-01 00:00:00",
                       "Congratulations! The full stack is working!",
                       "- item * starred" }
      [] sc = IMAP -> { "* CAPABILITY IMAP4rev1", "* BYE closing" }
      [] sc = RAW -> { "250 OK", "250-PIPELINING", "354 End data with <CR><LF>.<CR><LF>",
                       "550 rejected", "221 Bye" }

\* a completion line of the command before the last one, still on its way
StaleLines(sc, snt) ==
    IF sc \in ImapScripts /\ Len(snt) >= 2
    THEN { TagOf(snt[Len(snt) - 1]) \o " OK completed" } ELSE {}

\* the lines a chunk received after the last command of snt may hold
ResponseLines(sc, snt) ==
    (IF sc \in ImapScripts THEN Completion(TagOf(snt[Len(snt)])) ELSE {})
        \cup StaleLines(sc, snt) \cup ExtraLines(sc)

GreetingLines(sc) ==
    IF sc \in ImapScripts THEN { "* OK IMAP4rev1 Service Ready", "* BYE busy" }
    ELSE { "220 mail ESMTP ready", "554 no service" }

\* what a blocking recv (no timeout is set on the socket) can return: some data
\* while the server talks, "" once it has closed, and nothing while it is silent
Available(L) ==
    IF peer = "up" THEN ChunksOf(L) ELSE IF peer = "closed" THEN {""} ELSE {}

NoReturn == [send |-> "none", check |-> "none", main |-> -1]
NoDirs == [primary |-> [exists |-> FALSE, files |-> <<>>],
           fallback |-> [exists |-> FALSE, files |-> <<>>]]

Init ==
    /\ script \in Scripts
    /\ pc = "start"
    /\ step = 0
    /\ sock = "none"
    /\ peer \in {"up", "down"}
    /\ sent = <<>>
    /\ recvd = 0
    /\ response = ""
    /\ count = -1
    /\ stdout = <<>>
    /\ retval = NoReturn
    /\ exitCode = -1
    /\ maildirs = NoDirs
    /\ latest = ""

(***************************************************************************)
(* The raw-socket scripts.                                                 *)
(***************************************************************************)
\* socket.socket(...); sock.connect(...): ConnectionRefusedError when nothing listens
Connect ==
    /\ script \in SocketScripts
    /\ pc = "start"
    /\ IF peer = "up"
       THEN sock' = "open" /\ pc' = "greeting"
       ELSE sock' = "created" /\ pc' = "raised"
    /\ UNCHANGED <<script, recvd, step, peer, sent, response, count, stdout, retval,
                   exitCode, maildirs, latest>>

\* greeting = sock.recv(4096).decode(): printed, never examined
ReceiveGreeting ==
    /\ script \in SocketScripts
    /\ pc = "greeting"
    /\ \E chunk \in Available(GreetingLines(script)) :
         /\ pc' = "send"
         /\ step' = 1
    /\ recvd' = recvd + 1
    /\ UNCHANGED <<script, sock, peer, sent, response, count, stdout, retval,
                   exitCode, maildirs, latest>>

\* the first command written without waiting for its response
SendCommandPipelined ==
    /\ script \in SocketScripts
    /\ pc = "send"
    /\ sent' = Append(sent, Payload(script, step, count))
    /\ response' = ""
    /\ IF step = 1 THEN pc' = "send" /\ step' = 2 ELSE pc' = "recv" /\ step' = step
    /\ UNCHANGED <<script, recvd, sock, peer, count, stdout, retval,
                   exitCode, maildirs, latest>>

\* send_command, first half: sock.sendall(f"{command}\r\n".encode()); time.sleep.
\* The call is a new frame: its response is not bound until recv returns.
SendCommand ==
    /\ script \in SocketScripts
    /\ pc = "send"
    /\ sent' = Append(sent, Payload(script, step, count))
    /\ response' = ""
    /\ pc' = "recv"
    /\ UNCHANGED <<script, recvd, step, sock, peer, count, stdout, retval,
                   exitCode, maildirs, latest>>

\* send_command, second half: one sock.recv, returned as the response; then the
\* caller's code up to its next send_command, sock.close() or return
RecvResponse ==
    /\ script \in SocketScripts
    /\ pc = "recv"
    /\ \E chunk \in Available(ResponseLines(script, sent)) :
         LET a == After(script, step, chunk, count)
         IN  /\ response' = chunk
             /\ pc' = a.pc
             /\ step' = a.step
             /\ count' = a.count
             /\ stdout' = stdout \o a.out
    /\ recvd' = recvd + 1
    /\ UNCHANGED <<script, sock, peer, sent, retval, exitCode, maildirs, latest>>

\* sendall or recv raises (BrokenPipeError, ConnectionResetError): no script
\* catches it, so it leaves the function
SocketError ==
    /\ script \in SocketScripts
    /\ pc \in {"greeting", "send", "recv"}
    /\ peer = "closed"
    /\ pc' = "raised"
    /\ UNCHANGED <<script, recvd, step, sock, peer, sent, response, count, stdout, retval,
                   exitCode, maildirs, latest>>

\* sock.close() and the closing print
Close ==
    /\ script \in SocketScripts
    /\ pc = "close"
    /\ sock' = "closed"
    /\ stdout' = Append(stdout, FinalLine(script))
    /\ pc' = "returned"
    /\ UNCHANGED <<script, recvd, step, peer, sent, response, count, retval, exitCode,
                   maildirs, latest>>

\* the server stops answering, or closes the connection
ServerStall ==
    /\ sock = "open"
    /\ pc \in {"greeting", "send", "recv", "call", "reply"}
    /\ peer = "up"
    /\ peer' = "silent"
    /\ UNCHANGED <<script, recvd, pc, step, sock, sent, response, count, stdout, retval,
                   exitCode, maildirs, latest>>

ServerClose ==
    /\ sock = "open"
    /\ pc \in {"greeting", "send", "recv", "call", "reply"}
    /\ peer = "up"
    /\ peer' = "closed"
    /\ UNCHANGED <<script, recvd, pc, step, sock, sent, response, count, stdout, retval,
                   exitCode, maildirs, latest>>

(***************************************************************************)
(* The smtplib scripts: send_email (send-test-email.py) and                *)
(* send_test_email (test_spf_dkim.py).  A library call is the exchanges    *)
(* smtplib makes for it: the TCP connect, the blocking read of the         *)
(* greeting, and for each command a write followed by a blocking read of   *)
(* the reply.  The write and the read are steps of their own, so the       *)
(* server can fall silent or close between any two of them.                *)
(***************************************************************************)
\* the exchanges in the order the script's calls make them; the last one is the
\* exchange made while an exception is on its way out: the QUIT of the with
\* block's __exit__ (test_spf_dkim.py), the rset of sendmail (send-test-email.py)
LibCalls(sc) ==
    IF sc = SENDTEST
    THEN <<"connect", "greeting", "ehlo", "mail", "rcpt", "data", "message", "quit", "rset">>
    ELSE <<"connect", "greeting", "ehlo", "mail", "rcpt", "data", "message", "__exit__",
           "__exit__raise">>

CallIndex(sc, call) == CHOOSE i \in 1..Len(LibCalls(sc)) : LibCalls(sc)[i] = call

\* send-test-email.py passes timeout=10; test_spf_dkim.py passes none
HasTimeout(sc) == sc = SENDTEST

\* the replies a server may give, as the lines getreply reads
SmtpReplies ==
    { <<"220 mail ESMTP ready">>, <<"250-mail", "250 PIPELINING">>, <<"250 OK">>,
      <<"251 forwarded">>, <<"354 End data with <CR><LF>.<CR><LF>">>,
      <<"550 rejected">>, <<"421 closing">>, <<"221 Bye">> }

\* getreply: the code is int(line[:3]) of the first line whose fourth character
\* is not "-"; -1 when a line does not begin with a number
RECURSIVE ReplyCode(_)
ReplyCode(lines) ==
    LET line == Head(lines)
        code == IF Len(line) >= 3 /\ \A i \in 1..3 : IsDigit(SubSeq(line, i, i))
                THEN ParseInt(SubSeq(line, 1, 3)) ELSE -1
    IN  IF code = -1 \/ Len(line) < 4 \/ SubSeq(line, 4, 4) # "-" \/ Len(lines) = 1
        THEN code
        ELSE ReplyCode(Tail(lines))

\* the code of a reply that never came: the connection was lost or the read
\* timed out; getreply closes the socket and raises SMTPServerDisconnected
Lost == -2

\* except Exception as e: print(f"Failed to send email: {e}"); return False
Failed(at, st, sk) ==
    [pc |-> at, step |-> st, sock |-> sk, out |-> <<"Failed to send email">>, ret |-> "False"]

NextCall(sc, call) ==
    [pc |-> "call", step |-> CallIndex(sc, call), sock |-> "open", out |-> <<>>, ret |-> "none"]

\* send_email of send-test-email.py: try: SMTP(timeout=10); ehlo(); sendmail();
\* print; quit(); return True / except Exception: print; return False.
\* sendmail: mail, rcpt, data; a refused sender, recipient or message is answered
\* with rset (421: with close) and raised; data() raises an unexpected reply to
\* DATA itself.  No handler closes the connection.
SendEmailAfter(st, call, code) ==
    IF code = Lost THEN Failed("returned", st, "closed")
    ELSE CASE call = "greeting" ->
                IF code = 220 THEN NextCall(SENDTEST, "ehlo") ELSE Failed("returned", st, "closed")
           [] call = "ehlo" -> NextCall(SENDTEST, "mail")
           [] call = "mail" ->
                IF code = 250 THEN NextCall(SENDTEST, "rcpt")
                ELSE IF code = 421 THEN Failed("returned", st, "closed")
                ELSE NextCall(SENDTEST, "rset")
           [] call = "rcpt" ->
                IF code = 421 THEN Failed("returned", st, "closed")
                ELSE IF code = 250 \/ code = 251 THEN NextCall(SENDTEST, "data")
                ELSE NextCall(SENDTEST, "rset")
           [] call = "data" ->
                IF code = 354 THEN NextCall(SENDTEST, "message")
                ELSE Failed("returned", st, "open")
           [] call = "message" ->
                IF code = 250
                THEN [NextCall(SENDTEST, "quit") EXCEPT !.out = <<"Email sent successfully!">>]
                ELSE IF code = 421 THEN Failed("returned", st, "closed")
                ELSE NextCall(SENDTEST, "rset")
           [] call = "quit" ->
                [pc |-> "returned", step |-> st, sock |-> "closed", out |-> <<>>, ret |-> "True"]
           [] call = "rset" -> Failed("returned", st, "open")

\* send_test_email of test_spf_dkim.py: try: with SMTP() as server: ehlo; mail;
\* rcpt; data / print; return True / except Exception: print; return False.
\* mail() and rcpt() return whatever the server replied; data() raises unless
\* DATA is answered 354 and returns the reply to the message.  Leaving the with
\* block sends QUIT while the socket is there, raises on a reply other than 221,
\* swallows a lost connection, and closes.
SendTestEmailAfter(st, call, code) ==
    IF code = Lost
    THEN IF call = "__exit__"
         THEN [pc |-> "main", step |-> st, sock |-> "closed",
               out |-> <<"Email sent successfully!">>, ret |-> "True"]
         ELSE Failed("main", st, "closed")
    ELSE CASE call = "greeting" ->
                IF code = 220 THEN NextCall(SPF, "ehlo") ELSE Failed("main", st, "closed")
           [] call = "ehlo" -> NextCall(SPF, "mail")
           [] call = "mail" -> NextCall(SPF, "rcpt")
           [] call = "rcpt" -> NextCall(SPF, "data")
           [] call = "data" ->
                IF code = 354 THEN NextCall(SPF, "message") ELSE NextCall(SPF, "__exit__raise")
           [] call = "message" -> NextCall(SPF, "__exit__")
           [] call = "__exit__" ->
                IF code = 221
                THEN [pc |-> "main", step |-> st, sock |-> "closed",
                      out |-> <<"Email sent successfully!">>, ret |-> "True"]
                ELSE Failed("main", st, "closed")
           [] call = "__exit__raise" -> Failed("main", st, "closed")

LibAfter(sc, st, code) ==
    IF sc = SENDTEST THEN SendEmailAfter(st, LibCalls(sc)[st], code)
    ELSE SendTestEmailAfter(st, LibCalls(sc)[st], code)

\* smtplib.SMTP('localhost', 2525), first half: the TCP connect.
\* ConnectionRefusedError when nothing listens; otherwise the constructor goes on
\* to read the greeting
LibConnect ==
    /\ script \in SmtplibScripts
    /\ pc = "start"
    /\ IF peer = "up"
       THEN /\ pc' = "reply"
            /\ step' = CallIndex(script, "greeting")
            /\ sock' = "open"
            /\ UNCHANGED <<stdout, retval>>
       ELSE LET a == Failed(IF script = SENDTEST THEN "returned" ELSE "main", 1, "none")
            IN  /\ pc' = a.pc
                /\ step' = a.step
                /\ sock' = a.sock
                /\ stdout' = stdout \o a.out
                /\ retval' = [retval EXCEPT !.send = a.ret]
    /\ UNCHANGED <<script, recvd, peer, sent, response, count, exitCode, maildirs, latest>>

\* putcmd / send: the command (or the message) is written to the socket
LibSend ==
    /\ script \in SmtplibScripts
    /\ pc = "call"
    /\ pc' = "reply"
    /\ response' = ""
    /\ UNCHANGED <<script, recvd, step, sock, peer, sent, count, stdout, retval,
                   exitCode, maildirs, latest>>

\* getreply: the blocking read of the reply, and the code that follows it up to
\* the next write or the return.  A silent server blocks the read for ever
\* unless the socket has a timeout.
LibReply ==
    /\ script \in SmtplibScripts
    /\ pc = "reply"
    /\ \E lines \in (IF peer = "up" THEN SmtpReplies
                     ELSE IF peer = "closed" \/ HasTimeout(script) THEN {<<>>}
                     ELSE {}) :
         LET code == IF lines = <<>> THEN Lost ELSE ReplyCode(lines)
             a == LibAfter(script, step, code)
         IN  /\ response' = JoinCRLF(lines)
             /\ pc' = a.pc
             /\ step' = a.step
             /\ sock' = a.sock
             /\ stdout' = stdout \o a.out
             /\ retval' = [retval EXCEPT !.send = a.ret]
    /\ UNCHANGED <<script, recvd, peer, sent, count, exitCode, maildirs, latest>>

(***************************************************************************)
(* test_spf_dkim.py: main and the mailbox inspection.                      *)
(***************************************************************************)
\* main, after send_test_email() returned
MainAfterSend ==
    /\ script = SPF
    /\ pc = "main"
    /\ IF retval.send = "True"
       THEN /\ pc' = "inspect"
            /\ UNCHANGED <<stdout, retval>>
       ELSE /\ pc' = "returned"
            /\ stdout' = stdout \o <<"SPF/DKIM INTEGRATION TEST FAILED",
                                     "Could not send test email">>
            /\ retval' = [retval EXCEPT !.main = 1]
    /\ UNCHANGED <<script, recvd, step, sock, peer, sent, response, count, exitCode,
                   maildirs, latest>>

\* the message files the mail server may have written
Contents ==
    { "Authentication-Results: mail.delfour.co;\n spf=pass smtp.mailfrom=example.com\nSubject: SPF/DKIM Test Email\n\nThis is a test email\n",
      "Authentication-Results: mail.delfour.co; none\nSubject: SPF/DKIM Test Email\n\nThis is a test email\n",
      "Subject: SPF/DKIM Test Email\nX-Note: DKIM=none\n\nThis is a test email\n" }
CTimes == {1, 2}
Files == [ctime : CTimes, content : Contents]
\* a directory: absent, or the list glob returns for it
Dirs == { [exists |-> FALSE, files |-> <<>>] }
        \cup { [exists |-> TRUE, files |-> fs] :
                 fs \in UNION { [1..n -> Files] : n \in 0..MaxFiles } }
\* the two roots; the fallback root is enumerated where the primary holds no
\* entry (with an entry in the primary nothing looks at the fallback)
FileSystems ==
    { fs \in [primary : Dirs, fallback : Dirs] :
        fs.primary.files # <<>> => ~fs.fallback.exists }

\* maildir = "data/maildir/..."; if not os.path.exists(maildir): maildir = "mail-rs/..."
SelectMaildir(fs) == IF fs.primary.exists THEN fs.primary ELSE fs.fallback

\* max(emails) without the key: the first entry listed
LatestEmailFirst(files) == files[1]

\* max(emails, key=os.path.getctime): the first of the entries with the greatest ctime
LatestEmail(files) ==
    files[CHOOSE i \in 1..Len(files) :
            /\ \A j \in 1..Len(files) : files[j].ctime <= files[i].ctime
            /\ \A j \in 1..(i - 1) : files[j].ctime < files[i].ctime]

\* has_auth_header = 'Authentication-Results:' in content
HasAuthHeader(content) == Contains(content, "Authentication-Results:")
\* has_spf = 'spf=' in content.lower(); has_dkim = 'dkim=' in content.lower()
HasSpf(content) == Contains(Lower(content), "spf=")
HasDkim(content) == Contains(Lower(content), "dkim=")

\* the result of check_authentication_header on a mailbox: [ok, read, out]
CheckResult(fs) ==
    LET dir == SelectMaildir(fs)
    IN  IF ~dir.exists
        THEN [ok |-> "False", read |-> "", out |-> <<"Maildir not found">>]
        ELSE IF dir.files = <<>>
        THEN [ok |-> "False", read |-> "", out |-> <<"No emails found in mailbox">>]
        ELSE LET content == LatestEmail(dir.files).content
             IN  IF HasAuthHeader(content)
                 THEN [ok |-> "True", read |-> content,
                       out |-> <<"Authentication-Results header found!",
                                 "SPF validated: " \o (IF HasSpf(content) THEN "yes" ELSE "no"),
                                 "DKIM validated: " \o (IF HasDkim(content) THEN "yes" ELSE "no")>>]
                 ELSE [ok |-> "False", read |-> content,
                       out |-> <<"Authentication-Results header NOT found">>]

CheckAuthenticationHeader ==
    /\ script = SPF
    /\ pc = "inspect"
    /\ \E fs \in FileSystems :
         LET r == CheckResult(fs)
         IN  /\ maildirs' = fs
             /\ latest' = r.read
             /\ stdout' = stdout \o r.out
             /\ retval' = [retval EXCEPT !.check = r.ok]
    /\ pc' = "checked"
    /\ UNCHANGED <<script, recvd, step, sock, peer, sent, response, count, exitCode>>

\* main, after check_authentication_header() returned
MainAfterCheck ==
    /\ script = SPF
    /\ pc = "checked"
    /\ IF retval.check = "True"
       THEN /\ stdout' = Append(stdout, "SPF/DKIM INTEGRATION TEST PASSED!")
            /\ retval' = [retval EXCEPT !.main = 0]
       ELSE /\ stdout' = stdout \o <<"SPF/DKIM INTEGRATION TEST FAILED",
                                     "Authentication header not found in email">>
            /\ retval' = [retval EXCEPT !.main = 1]
    /\ pc' = "returned"
    /\ UNCHANGED <<script, recvd, step, sock, peer, sent, response, count, exitCode,
                   maildirs, latest>>

(***************************************************************************)
(* The end of the process.                                                 *)
(***************************************************************************)
\* the __main__ block: only test_spf_dkim.py passes a status to exit(); the
\* others end with status 0 when the function returns and 1 when an exception
\* leaves it
ExitStatus(sc, at, ret) ==
    IF at = "raised" THEN 1
    ELSE IF sc = SPF THEN ret.main
    ELSE 0

Exit ==
    /\ pc \in {"returned", "raised"}
    /\ exitCode' = ExitStatus(script, pc, retval)
    /\ pc' = "exited"
    /\ UNCHANGED <<script, recvd, step, sock, peer, sent, response, count, stdout, retval,
                   maildirs, latest>>

\* the steps of the script itself, and those of its environment
ScriptStep ==
    \/ Connect
    \/ ReceiveGreeting
    \/ SendCommand
    \/ RecvResponse
    \/ SocketError
    \/ Close
    \/ LibConnect
    \/ LibSend
    \/ LibReply
    \/ MainAfterSend
    \/ CheckAuthenticationHeader
    \/ MainAfterCheck
    \/ Exit

Next ==
    \/ Connect
    \/ ReceiveGreeting
    \/ SendCommand
    \/ RecvResponse
    \/ SocketError
    \/ Close
    \/ LibConnect
    \/ LibSend
    \/ LibReply
    \/ MainAfterSend
    \/ CheckAuthenticationHeader
    \/ MainAfterCheck
    \/ Exit
    \/ ServerStall
    \/ ServerClose

Spec == Init /\ [][Next]_vars

\* the interpreter runs the script whenever it is not blocked in a call; the
\* server owes nothing
FairSpec == Init /\ [][Next]_vars /\ WF_vars(ScriptStep)

(***************************************************************************)
(* Vocabulary of the properties.                                           *)
(***************************************************************************)
LastTag == TagOf(sent[Len(sent)])

\* resp holds a line that starts with "<tag> <status>"
CompletionStatus(resp, tag, status) ==
    \/ StartsWith(resp, tag \o " " \o status)
    \/ Contains(resp, "\r\n" \o tag \o " " \o status)

HasTaggedCompletion(resp, tag) ==
    \E status \in {"OK", "NO", "BAD"} : CompletionStatus(resp, tag, status)

\* the response to the last command sent has been handed to the caller
Answered == sent # <<>> /\ pc \in {"send", "close", "returned"}

Printed(line) == \E i \in 1..Len(stdout) : stdout[i] = line

FullPassed == Printed(FinalLine(FULL))
FullFailed == Printed("LOGIN failed!") \/ Printed("SELECT failed!") \/ Printed("FETCH failed!")

\* the number a tag carries, and the order of tags as strings
TagNumber(cmd) == ParseInt(SubSeq(cmd, 2, 4))
CharRank(c) == IF IsDigit(c) THEN DigitVal(c) ELSE 10 + (IF c = "A" THEN 0 ELSE 1)
LexLess(a, b) ==
    \E k \in 1..(Len(a) + 1) :
        /\ k <= Len(b)
        /\ SubSeq(a, 1, k - 1) = SubSeq(b, 1, k - 1)
        /\ \/ k > Len(a)
           \/ CharRank(SubSeq(a, k, k)) < CharRank(SubSeq(b, k, k))

\* "A%03d" % k
FormatTag(k) ==
    LET d == IntToStr(k)
    IN  "A" \o (IF Len(d) >= 3 THEN d ELSE SubSeq("000", 1, 3 - Len(d)) \o d)

\* a response as the protocol shapes it: untagged and body lines, then the one
\* tagged completion line of the command
WellFormed(resp, tag) ==
    \E n \in 0..(MaxLines - 1) : \E pre \in [1..n -> ExtraLines(FULL)] :
        \E c \in Completion(tag) : resp = JoinCRLF(pre \o <<c>>)

\* the Authentication-Results header of a message, with its folded continuation lines
AuthHeaderText(content) ==
    LET starts == { i \in 1..Len(content) :
                      i + 22 <= Len(content)
                      /\ SubSeq(content, i, i + 22) = "Authentication-Results:" }
        st == CHOOSE i \in starts : \A j \in starts : i <= j
        ends == { j \in st..Len(content) :
                    /\ SubSeq(content, j, j) = "\n"
                    /\ \/ j = Len(content)
                       \/ SubSeq(content, j + 1, j + 1) \notin {" ", "\t"} }
        en == IF ends = {} THEN Len(content) ELSE CHOOSE j \in ends : \A g \in ends : j <= g
    IN  IF starts = {} THEN "" ELSE SubSeq(content, st, en)

TokenInAuthHeader(content) ==
    \/ Contains(Lower(AuthHeaderText(content)), "spf=")
    \/ Contains(Lower(AuthHeaderText(content)), "dkim=")

(***************************************************************************)
(* C1: an IMAP exchange is handed to the caller as complete only when the  *)
(* received text holds a line starting with the command's own tag followed *)
(* by OK, NO or BAD.                                                       *)
(***************************************************************************)
C1_TaggedLineBeforeComplete ==
    (script \in ImapScripts /\ Answered) => HasTaggedCompletion(response, LastTag)

(***************************************************************************)
(* C2: when a scenario function has returned or an exception has left it,  *)
(* the session it opened is closed.                                        *)
(***************************************************************************)
C2_ClosedOnEveryExit ==
    pc \in {"returned", "raised", "exited"} => sock # "open"

(***************************************************************************)
(* C3: on an IMAP session each command's tag is greater, as a number and   *)
(* as a string, than the tag of the command before it, and no tag is sent  *)
(* twice.                                                                  *)
(***************************************************************************)
C3_TagsStrictlyIncreasing ==
    script \in ImapScripts =>
        /\ \A i \in 2..Len(sent) :
              /\ TagNumber(sent[i - 1]) < TagNumber(sent[i])
              /\ LexLess(TagOf(sent[i - 1]), TagOf(sent[i]))
        /\ \A i, j \in 1..Len(sent) : i # j => TagOf(sent[i]) # TagOf(sent[j])

\* test_imap_read has sent all four of its commands, FETCH included
C3_Witness ==
    /\ script = E2E
    /\ Len(sent) = 4
    /\ TagOf(sent[3]) = "A003"
    /\ pc = "returned"

(***************************************************************************)
(* C4: the k-th command sent on an IMAP session carries the tag A%03d of   *)
(* k, on every path, also when a step is skipped.                          *)
(***************************************************************************)
C4_TagIsCommandIndex ==
    script \in ImapScripts => \A k \in 1..Len(sent) : TagOf(sent[k]) = FormatTag(k)

(***************************************************************************)
(* C5: in test_complete_flow, once a check has failed no further command   *)
(* is sent, the failure stays, and the passing verdict is never printed.   *)
(***************************************************************************)
C5_FailedIsAbsorbing ==
    [][ (script = FULL /\ FullFailed) => (sent' = sent /\ FullFailed' /\ ~FullPassed') ]_vars

\* SELECT was judged not OK after a LOGIN judged OK, and the process has ended
C5_Witness ==
    /\ script = FULL
    /\ Printed("LOGIN successful!")
    /\ Printed("SELECT failed!")
    /\ Len(sent) = 2
    /\ pc = "exited"

(***************************************************************************)
(* C6: test_complete_flow goes on from a command, and in the end reports   *)
(* the passing verdict, only if the reply to that command was its tagged   *)
(* OK completion; so it passes only if every command issued received OK.   *)
(***************************************************************************)
C6_PassOnlyIfAllOk ==
    (script = FULL /\ sent # <<>> /\ (pc \in {"send", "close"} \/ FullPassed))
        => CompletionStatus(response, LastTag, "OK")

(***************************************************************************)
(* C7: for a response made of untagged lines, body lines and one tagged    *)
(* completion line, the response of LOGIN, SELECT or FETCH is judged OK    *)
(* exactly when the tagged completion line carries OK.                     *)
(***************************************************************************)
C7_OkCheckExact ==
    (/\ script = FULL
     /\ Len(sent) \in 1..3
     /\ pc \in {"send", "returned"}
     /\ WellFormed(response, LastTag))
        => ((pc = "send") <=> CompletionStatus(response, LastTag, "OK"))

(***************************************************************************)
(* C8: the process of the SPF/DKIM scenario, of the IMAP flow scenario and *)
(* of the SMTP submission ends with status 0 exactly when the scenario     *)
(* fully succeeded.                                                        *)
(***************************************************************************)
Succeeded ==
    CASE script = FULL -> FullPassed
      [] script = SENDTEST -> retval.send = "True"
      [] script = SPF -> Printed("SPF/DKIM INTEGRATION TEST PASSED!")
      [] OTHER -> FALSE

C8_ExitCodeReflectsSuccess ==
    (script \in {FULL, SENDTEST, SPF} /\ pc = "exited") => (exitCode = 0 <=> Succeeded)

(***************************************************************************)
(* C9: check_authentication_header returns True, and main returns 0, only  *)
(* if the file read holds an Authentication-Results: header with an spf=   *)
(* or dkim= token (any case) in that header.                               *)
(***************************************************************************)
C9_PassNeedsToken ==
    (script = SPF /\ (retval.check = "True" \/ retval.main = 0))
        => (HasAuthHeader(latest) /\ TokenInAuthHeader(latest))

(***************************************************************************)
(* C10: every scenario terminates: a server that never greets or stops     *)
(* replying cannot keep the script in recv for ever.                       *)
(***************************************************************************)
C10_EveryScenarioTerminates == <>(pc = "exited")

(***************************************************************************)
(* C11: test_imap_read reports success for a FETCH response only if the    *)
(* response holds both the subject text and the body marker.               *)
(***************************************************************************)
E2ESuccessReported == Printed("SUCCESS! The E2E test email is readable via IMAP!")

C11_SuccessNeedsSubjectAndMarker ==
    (/\ script = E2E
     /\ Len(sent) = 3
     /\ pc = "send"
     /\ E2ESuccessReported)
        => (/\ Contains(response, "E2E Test Email")
            /\ Contains(response, "full stack is working"))

(***************************************************************************)
(* C12: the mailbox inspection and the roots it tries.                     *)
(***************************************************************************)
Inspected == script = SPF /\ retval.check # "none"
NotFoundReported == Printed("Maildir not found") \/ Printed("No emails found in mailbox")
HasEntry(dir) == dir.exists /\ dir.files # <<>>
SelectedDir == IF maildirs.primary.exists THEN maildirs.primary ELSE maildirs.fallback
\* the contents of the entries of a listing whose ctime no other entry exceeds
MostRecentContents(files) ==
    { files[i].content : i \in { k \in 1..Len(files) :
                                   \A j \in 1..Len(files) : files[j].ctime <= files[k].ctime } }

\* C12 as claimed: the inspection fails only if neither the primary nor the
\* fallback root exists with an entry; otherwise it reads the most recent entry
\* of the directory it selected
C12_NotFoundOnlyIfNoRootHasEntry ==
    Inspected =>
        IF ~HasEntry(maildirs.primary) /\ ~HasEntry(maildirs.fallback)
        THEN NotFoundReported
        ELSE ~NotFoundReported /\ latest \in MostRecentContents(SelectedDir.files)

\* C12 as amended: the directory inspected is the primary root if it exists and
\* the fallback root otherwise; the inspection fails exactly when that directory
\* is absent or has no entry, and otherwise reads an entry of it whose creation
\* timestamp no other entry of it exceeds
C12_NotFoundIffSelectedDirEmpty ==
    Inspected =>
        IF ~HasEntry(SelectedDir)
        THEN NotFoundReported /\ latest = ""
        ELSE ~NotFoundReported /\ latest \in MostRecentContents(SelectedDir.files)

\* the fallback root was inspected and the newer of two different files, listed
\* second, was read
C12_Witness ==
    /\ Inspected
    /\ ~maildirs.primary.exists
    /\ Len(maildirs.fallback.files) >= 2
    /\ maildirs.fallback.files[1].ctime < maildirs.fallback.files[2].ctime
    /\ maildirs.fallback.files[1].content # maildirs.fallback.files[2].content
    /\ latest = maildirs.fallback.files[2].content

(***************************************************************************)
(* C13: send_email of send-smtp-raw.py receives the greeting first and     *)
(* then writes EHLO, MAIL FROM, RCPT TO, DATA, the message ending with a   *)
(* line holding only ".", and QUIT, in that order and each once.           *)
(***************************************************************************)
EndsWith(s, suffix) ==
    Len(s) >= Len(suffix) /\ SubSeq(s, Len(s) - Len(suffix) + 1, Len(s)) = suffix

SmtpExpected(k, payload) ==
    CASE k = 1 -> StartsWith(payload, "EHLO ") /\ EndsWith(payload, "\r\n")
      [] k = 2 -> StartsWith(payload, "MAIL FROM:<") /\ EndsWith(payload, ">\r\n")
      [] k = 3 -> StartsWith(payload, "RCPT TO:<") /\ EndsWith(payload, ">\r\n")
      [] k = 4 -> payload = "DATA\r\n"
      [] k = 5 -> StartsWith(payload, "From: ") /\ EndsWith(payload, "\n.\n")
      [] k = 6 -> payload = "QUIT\r\n"
      [] OTHER -> FALSE

C13_SmtpCommandOrder ==
    script = RAW =>
        /\ sent # <<>> => recvd >= 1
        /\ \A k \in 1..Len(sent) : SmtpExpected(k, sent[k])
        /\ pc = "returned" => Len(sent) = 6

\* the submission ran to its end
C13_Witness ==
    /\ script = RAW
    /\ pc = "returned"
    /\ Len(sent) = 6
    /\ sent[6] = "QUIT\r\n"
    /\ sock = "closed"

(***************************************************************************)
(* C14: on a session a payload is written only while the socket is open    *)
(* and every payload written before has been answered by a recv; a recv    *)
(* returns only for the greeting or for the one outstanding payload; and   *)
(* nothing is written or received once the socket is closed.               *)
(***************************************************************************)
C14_HalfDuplex ==
    [][ /\ sent' # sent =>
              /\ sock = "open"
              /\ Len(sent) = recvd - 1
              /\ Len(sent') = Len(sent) + 1
              /\ recvd' = recvd
        /\ recvd' # recvd =>
              /\ sock = "open"
              /\ Len(sent) = recvd
              /\ recvd' = recvd + 1
              /\ sent' = sent
        /\ sock = "closed" => (sent' = sent /\ recvd' = recvd) ]_vars

\* test_complete_flow has written its five commands, received the greeting and
\* five responses, and closed the socket
C14_Witness ==
    /\ script = FULL
    /\ Len(sent) = 5
    /\ recvd = 6
    /\ sock = "closed"

(***************************************************************************)
(* C15: in test_spf_dkim.main an exception raised while connecting or      *)
(* sending makes send_test_email return False; the mailbox is then not     *)
(* inspected and main returns 1.  The mailbox is inspected only after a    *)
(* submission that raised nothing.                                         *)
(***************************************************************************)
ExceptionCaught == Printed("Failed to send email")

\* an exception raised inside the with block is on its way out through __exit__
ExceptionUnwinding ==
    /\ script = SPF
    /\ pc \in {"call", "reply"}
    /\ LibCalls(SPF)[step] = "__exit__raise"

ExceptionRaised == script = SPF /\ (ExceptionUnwinding \/ ExceptionCaught)

\* what holds once the exception has been caught, and before any inspection
FailureNotInspected ==
    script = SPF =>
        /\ ExceptionCaught =>
              /\ retval.send = "False"
              /\ retval.check = "none"
              /\ maildirs = NoDirs
              /\ pc \notin {"inspect", "checked"}
              /\ pc \in {"returned", "exited"} => retval.main = 1
              /\ pc = "exited" => exitCode = 1
        /\ (pc \in {"inspect", "checked"} \/ retval.check # "none") =>
              /\ retval.send = "True"
              /\ ~ExceptionRaised

\* C15: the mailbox is never inspected after an exception, and every exception
\* raised ends in send_test_email returning False and main returning 1
C15_SubmissionFailureRecovered ==
    /\ []FailureNotInspected
    /\ ExceptionRaised ~> (retval.send = "False" /\ retval.main = 1)

(***************************************************************************)
(* C16: test_imap goes on normally after the wrong-password LOGIN only     *)
(* when the reply to it was a tagged NO or BAD; a tagged OK is reported as *)
(* a failure.                                                              *)
(***************************************************************************)
C16_WrongPasswordMustBeRefused ==
    (script = IMAP /\ Len(sent) = 3 /\ pc = "send")
        => (\/ CompletionStatus(response, LastTag, "NO")
            \/ CompletionStatus(response, LastTag, "BAD"))

(***************************************************************************)
(* C17: the count test_imap_all prints for a FETCH response is the number  *)
(* of lines of the response that begin with "* ", minus one.               *)
(***************************************************************************)
StarLineCount(resp) ==
    (IF StartsWith(resp, "* ") THEN 1 ELSE 0) + CountOcc(resp, "\r\n* ")

C17_CountIsStarLinesMinusOne ==
    (/\ script = ALL
     /\ Len(sent) = 3
     /\ pc = "send"
     /\ E2ESuccessReported)
        => Printed("Total emails fetched: " \o NumStr(StarLineCount(response) - 1))

(***************************************************************************)
(* C18: test_imap_read sends FETCH only when the SELECT response reported  *)
(* "* N EXISTS" with N >= 1, and then for sequence number N.               *)
(***************************************************************************)
C18_FetchOnlyWhenMessagesExist ==
    script = E2E =>
        /\ (Len(sent) = 2 /\ pc = "send") => (step = 3 <=> ExistsCount(response) >= 1)
        /\ (Len(sent) >= 3 /\ StartsWith(sent[3], "A003 FETCH")) =>
              /\ count >= 1
              /\ sent[3] = "A003 FETCH " \o IntToStr(count) \o " BODY[]\r\n"

(***************************************************************************)
(* C19: on an IMAP session the socket is closed only after LOGOUT, which   *)
(* is the last command sent and is sent once.                              *)
(***************************************************************************)
IsLogout(payload) == SubSeq(payload, 5, Len(payload)) = " LOGOUT\r\n"

C19_LogoutBeforeClose ==
    script \in ImapScripts =>
        /\ sock = "closed" => (sent # <<>> /\ IsLogout(sent[Len(sent)]))
        /\ \A k \in 1..Len(sent) : IsLogout(sent[k]) => k = Len(sent)

\* test_imap has sent its four commands and closed the socket
C19_Witness ==
    /\ script = IMAP
    /\ Len(sent) = 4
    /\ sock = "closed"
    /\ pc = "returned"

====
